---- MODULE Spec2Model ----
(***************************************************************************)
(* The filter matcher `compare` of the redmine command-line client         *)
(* (src/src/index.ts), as listCommand uses it to select issues, and the    *)
(* paginated download `fetchAll` that hands listCommand those issues.      *)
(*                                                                         *)
(* JavaScript strings are sequences of one-character strings; JavaScript   *)
(* values are tagged records ([t |-> "undefined"], [t |-> "string", ...]). *)
(* A raised exception is the value Throw, which every later step of a      *)
(* composition passes on.                                                  *)
(***************************************************************************)
EXTENDS Integers, Sequences, FiniteSets, TLC

VARIABLES filter, value, result, pc

\* fetchAll: its locals, its position, the server's total and the requests
\* issued so far
VARIABLES offset, items, body, fpc, total, requests

compareVars == <<filter, value, result, pc>>

fetchVars == <<offset, items, body, fpc, total, requests>>

vars == <<compareVars, fetchVars>>

-----------------------------------------------------------------------------
(* JavaScript values *)

Undefined == [t |-> "undefined"]
Null == [t |-> "null"]
NaN == [t |-> "NaN"]
Throw == [t |-> "TypeError"]
Pending == [t |-> "pending"]

Str(s) == [t |-> "string", s |-> s]
Num(n) == [t |-> "number", n |-> n]
Bool(b) == [t |-> "boolean", b |-> b]
Obj(id, name) == [t |-> "object", id |-> id, name |-> name]

-----------------------------------------------------------------------------
(* String.prototype methods *)

WhiteSpace == {" ", "\t", "\n"}

Digits == <<"0", "1", "2", "3", "4", "5", "6", "7", "8", "9">>

IsDigit(c) == \E i \in 1..Len(Digits) : Digits[i] = c

DigitVal(c) == (CHOOSE i \in 1..Len(Digits) : Digits[i] = c) - 1

UpperLetters == <<"A", "B", "E", "N", "O">>
LowerLetters == <<"a", "b", "e", "n", "o">>

toLowerChar(c) ==
  IF \E i \in 1..Len(UpperLetters) : UpperLetters[i] = c
  THEN LowerLetters[CHOOSE i \in 1..Len(UpperLetters) : UpperLetters[i] = c]
  ELSE c

toLowerCase(s) == [i \in 1..Len(s) |-> toLowerChar(s[i])]

RECURSIVE trimStart(_)
trimStart(s) ==
  IF s # <<>> /\ Head(s) \in WhiteSpace THEN trimStart(Tail(s)) ELSE s

RECURSIVE trimEnd(_)
trimEnd(s) ==
  IF s # <<>> /\ s[Len(s)] \in WhiteSpace
  THEN trimEnd(SubSeq(s, 1, Len(s) - 1))
  ELSE s

trim(s) == trimEnd(trimStart(s))

startsWith(s, c) == s # <<>> /\ Head(s) = c

slice(s, from) == SubSeq(s, from + 1, Len(s))

\* s.indexOf(needle) >= 0
includes(s, needle) ==
  \E i \in 0..(Len(s) - Len(needle)) : SubSeq(s, i + 1, i + Len(needle)) = needle

\* s.split(sep) for a one-character separator: always at least one piece
RECURSIVE split(_, _)
split(s, sep) ==
  IF \E i \in 1..Len(s) : s[i] = sep
  THEN LET i == CHOOSE k \in 1..Len(s) :
                  s[k] = sep /\ \A j \in 1..(k - 1) : s[j] # sep
       IN <<SubSeq(s, 1, i - 1)>> \o split(SubSeq(s, i + 1, Len(s)), sep)
  ELSE <<s>>

RECURSIVE DecValue(_)
DecValue(ds) ==
  IF ds = <<>> THEN 0
  ELSE 10 * DecValue(SubSeq(ds, 1, Len(ds) - 1)) + DigitVal(ds[Len(ds)])

AllDigits(s) == s # <<>> /\ \A i \in 1..Len(s) : IsDigit(s[i])

\* Unary plus on a string (`+e`): surrounding white space is dropped, the
\* empty string is 0, a decimal numeral is its value and anything else is NaN.
\* (Signs, fractions, exponents and radix prefixes need characters that the
\* strings of this model never put next to a digit.)
toNumber(s) ==
  LET t == trim(s)
  IN IF t = <<>> THEN Num(0)
     ELSE IF AllDigits(t) THEN Num(DecValue(t))
     ELSE NaN

-----------------------------------------------------------------------------
(* Ramda functions used by compare; each passes a raised exception on *)

\* a variant that tests `=== undefined` instead of nil
isNilUndefinedOnly(v) == Bool(v.t = "undefined")

isNil(v) == Bool(v.t \in {"undefined", "null"})

\* a variant that reads obj[p] directly: a TypeError for a nil object
propOfNilThrows(p, obj) ==
  IF obj.t = "object" THEN obj[p]
  ELSE IF obj.t \in {"undefined", "null"} THEN Throw
  ELSE Undefined

\* R.prop(p, obj) is R.path([p], obj): undefined for a nil object
prop(p, obj) ==
  IF obj.t = "object" THEN obj[p] ELSE Undefined

\* a variant that leaves the default out
defaultToNothing(d, v) == v

defaultTo(d, v) ==
  IF v = Throw THEN Throw
  ELSE IF v.t \in {"undefined", "null", "NaN"} THEN d
  ELSE v

\* a variant that keeps the letter case
toLowerKeepsCase(v) == IF v.t = "string" THEN v ELSE Throw

\* R.toLower is invoker(0, 'toLowerCase'): a TypeError on a non-string
toLower(v) == IF v.t = "string" THEN Str(toLowerCase(v.s)) ELSE Throw

\* a variant that compares the whole string
containsWhole(e, v) ==
  IF v = Throw THEN Throw
  ELSE IF v.t = "string" THEN Bool(v.s = e)
  ELSE Bool(FALSE)

\* R.contains(e, list) on a string list is list.indexOf(e) >= 0
contains(e, v) ==
  IF v = Throw THEN Throw
  ELSE IF v.t = "string" THEN Bool(includes(v.s, e))
  ELSE Bool(FALSE)

\* R.equals: same type and same value (NaN equals NaN)
equals(a, b) == IF b = Throw THEN Throw ELSE Bool(a = b)

\* R.either(f, g)(x) is f(x) || g(x); l and r are the two results
either(l, r) ==
  IF l = Throw THEN Throw
  ELSE IF l.b THEN l
  ELSE r

not(v) == IF v = Throw THEN Throw ELSE Bool(~v.b)

-----------------------------------------------------------------------------
(* compare *)

none == <<"n", "o", "n", "e">>

\* a variant that keeps the letter case of the filter
expressionsCaseSensitive(f) ==
  LET parts == split(f, "|")
  IN [i \in 1..Len(parts) |-> trim(parts[i])]

\* filter.split('|').map(s => s.trim().toLowerCase())
expressions(f) ==
  LET parts == split(f, "|")
  IN [i \in 1..Len(parts) |-> toLowerCase(trim(parts[i]))]

\* R.compose(R.contains(e), R.toLower, R.defaultTo(''), R.prop('name'))
nameContains(e, v) ==
  contains(e, toLower(defaultTo(Str(<<>>), prop("name", v))))

RECURSIVE numToString(_)
numToString(n) ==
  IF n < 10 THEN <<Digits[n + 1]>>
  ELSE numToString(n \div 10) \o <<Digits[(n % 10) + 1]>>

\* a variant that looks for the term among the digits of the identifier
idEqualsSubstring(e, v) ==
  LET id == prop("id", v)
  IN IF id = Throw THEN Throw
     ELSE IF id.t = "number" THEN Bool(includes(numToString(id.n), trim(e)))
     ELSE Bool(FALSE)

\* R.compose(R.equals(+e), R.prop('id'))
idEquals(e, v) == equals(toNumber(e), prop("id", v))

\* the predicate of a term, before negation
predicate(e, v) ==
  IF e = none THEN isNil(v)
  ELSE either(nameContains(e, v), idEquals(e, v))

\* a variant that strips the `!` and forgets to invert
cmpForgetsNot(e, v) ==
  IF startsWith(e, "!") THEN predicate(slice(e, 1), v)
  ELSE predicate(e, v)

\* the comparator built for one expression: tuple([e.slice(1), R.not]) or
\* tuple([e, R.identity]), composed with the predicate of its term
cmp(e, v) ==
  IF startsWith(e, "!") THEN not(predicate(slice(e, 1), v))
  ELSE predicate(e, v)

\* a variant that asks every comparator to hold
RECURSIVE every(_, _)
every(es, v) ==
  IF es = <<>> THEN Bool(TRUE)
  ELSE LET r == cmp(Head(es), v)
       IN IF r = Throw THEN Throw
          ELSE IF r.b THEN every(Tail(es), v)
          ELSE Bool(FALSE)

\* a variant that consults the first comparator alone
someFirstOnly(es, v) == IF es = <<>> THEN Bool(FALSE) ELSE cmp(Head(es), v)

\* Array.prototype.some over the comparators, left to right
RECURSIVE some(_, _)
some(es, v) ==
  IF es = <<>> THEN Bool(FALSE)
  ELSE LET r == cmp(Head(es), v)
       IN IF r = Throw THEN Throw
          ELSE IF r.b THEN Bool(TRUE)
          ELSE some(Tail(es), v)

\* a variant without the `if (!filter) return true` guard
compareNoGuard(f, v) ==
  IF f.t # "string" THEN Throw
  ELSE some(expressions(f.s), v)

compare(f, v) ==
  IF f.t = "undefined" \/ f = Str(<<>>) THEN Bool(TRUE)
  ELSE IF f.t # "string" THEN Throw
  ELSE some(expressions(f.s), v)

-----------------------------------------------------------------------------
(* Inputs *)

\* the longest filter, counted in fragments
MaxPieces == 3

Fragments ==
  { none, <<"N", "o", "n", "e">>, <<"!">>, <<"|">>, <<" ">>,
    <<"a">>, <<"A">>, <<"1">>, <<"2">> }

RECURSIVE Concats(_)
Concats(k) ==
  IF k = 0 THEN {<<>>}
  ELSE LET shorter == Concats(k - 1)
       IN shorter \cup {p \o q : p \in shorter, q \in Fragments}

FilterStrings == Concats(MaxPieces)

Filters == {Undefined} \cup {Str(s) : s \in FilterStrings}

Names ==
  { <<>>, <<"a">>, <<"A">>, <<"N", "o", "n", "e">>, <<"!", "a">>,
    <<"a", "|", "1">>, <<"1", " ", "a">> }

Ids == {1, 12}

Resources ==
  { Obj(i, n) : i \in {Undefined} \cup {Num(k) : k \in Ids},
                n \in {Undefined} \cup {Str(s) : s \in Names} }

Values == {Undefined, Null} \cup Resources

-----------------------------------------------------------------------------
(* The calls *)

NoBody == [issues |-> <<>>, total_count |-> 0]

\* fetchAll is not running
FetchIdle ==
  /\ offset = 0
  /\ items = <<>>
  /\ body = NoBody
  /\ fpc = "idle"
  /\ total = 0
  /\ requests = <<>>

Init ==
  /\ filter \in Filters
  /\ value \in Values
  /\ result = Pending
  /\ pc = "call"
  /\ FetchIdle

Call ==
  /\ pc = "call"
  /\ result' = compare(filter, value)
  /\ pc' = "done"
  /\ UNCHANGED <<filter, value>>
  /\ UNCHANGED fetchVars

Next == Call

Spec == Init /\ [][Next]_vars

returned == pc = "done" /\ result.t = "boolean"

-----------------------------------------------------------------------------
(* fetchAll, against a server that holds `total` issues, reports that number
   as total_count in every response and serves the page a request asks for *)

\* the largest number of issues on the server
MaxTotal == 250

\* `limit=100` of the request
Limit == 100

\* `offset += 100`
PageStep == 100

\* the issues on the server, in its order
ServerIssues(n) == [i \in 1..n |-> i]

\* the response to `?limit=<limit>&offset=<off>`
Respond(limit, off) ==
  LET last == IF off + limit < total THEN off + limit ELSE total
  IN [ issues |-> IF off >= total THEN <<>>
                  ELSE SubSeq(ServerIssues(total), off + 1, last),
       total_count |-> total ]

\* a variant of the loop's exit test with `<` for `<=`
isLastPageStrict(total_count, off) == total_count < off

\* `if (body.total_count <= offset) break`, offset already advanced
isLastPage(total_count, off) == total_count <= off

CompareIdle ==
  /\ filter = Undefined
  /\ value = Undefined
  /\ result = Pending
  /\ pc = "idle"

FetchInit ==
  /\ CompareIdle
  /\ total \in 0..MaxTotal
  /\ offset = 0
  /\ items = <<>>
  /\ body = NoBody
  /\ requests = <<>>
  /\ fpc = "get"

\* get(`${url}?limit=100&offset=${offset}`) is issued
SendRequest ==
  /\ fpc = "get"
  /\ requests' = Append(requests, [limit |-> Limit, offset |-> offset])
  /\ fpc' = "await"
  /\ UNCHANGED <<offset, items, body, total>>
  /\ UNCHANGED compareVars

\* the awaited response arrives
Receive ==
  /\ fpc = "await"
  /\ body' = LET req == requests[Len(requests)]
             IN Respond(req.limit, req.offset)
  /\ fpc' = "loop"
  /\ UNCHANGED <<offset, items, total, requests>>
  /\ UNCHANGED compareVars

\* the rest of the loop body: concat, advance, test, and return on break
Advance ==
  /\ fpc = "loop"
  /\ items' = items \o body.issues
  /\ offset' = offset + PageStep
  /\ fpc' = IF isLastPage(body.total_count, offset') THEN "done" ELSE "get"
  /\ UNCHANGED <<body, total, requests>>
  /\ UNCHANGED compareVars

FetchNext == SendRequest \/ Receive \/ Advance

\* the event loop resumes fetchAll whenever a step of it can run
FetchSpec == FetchInit /\ [][FetchNext]_vars /\ WF_vars(FetchNext)

-----------------------------------------------------------------------------
(* Vocabulary of the properties *)

done == pc = "done"

Absent(v) == v \in {Undefined, Null}

HasFilter == filter.t = "string"

Blank(s) == \A i \in 1..Len(s) : s[i] \in WhiteSpace

\* a spelling of the keyword `none` in any letter case
NoneWord(w) ==
  /\ Len(w) = 4
  /\ w[1] \in {"n", "N"} /\ w[2] \in {"o", "O"}
  /\ w[3] \in {"n", "N"} /\ w[4] \in {"e", "E"}

\* s is w with white space around it, for some w that satisfies Word
Padded(s, Word(_)) ==
  \E i \in 1..(Len(s) + 1) : \E j \in (i - 1)..Len(s) :
    /\ Blank(SubSeq(s, 1, i - 1))
    /\ Word(SubSeq(s, i, j))
    /\ Blank(SubSeq(s, j + 1, Len(s)))

NotNoneWord(w) == w # <<>> /\ Head(w) = "!" /\ NoneWord(Tail(w))

\* parseInt(s) of a string: the value of the longest run of decimal digits
\* after the leading white space, NaN when there is none
parseInt(s) ==
  LET t == trimStart(s)
      IsRun(k) == \A i \in 1..k : IsDigit(t[i])
      n == CHOOSE k \in 0..Len(t) :
             IsRun(k) /\ (k = Len(t) \/ ~IsDigit(t[k + 1]))
  IN IF n = 0 THEN NaN ELSE Num(DecValue(SubSeq(t, 1, n)))

\* the `|`-separated clauses of s, as written
Clauses(s) == LET parts == split(s, "|") IN {parts[i] : i \in 1..Len(parts)}

\* the term of an expression: the text after its optional leading `!`
Term(e) == IF startsWith(e, "!") THEN slice(e, 1) ELSE e

\* JavaScript's l || r on the outcomes of two calls, l evaluated first
Or(l, r) ==
  IF l = Throw THEN Throw
  ELSE IF l.b THEN l
  ELSE r

toUpperChar(c) ==
  IF \E i \in 1..Len(LowerLetters) : LowerLetters[i] = c
  THEN UpperLetters[CHOOSE i \in 1..Len(LowerLetters) : LowerLetters[i] = c]
  ELSE c

toUpperCase(s) == [i \in 1..Len(s) |-> toUpperChar(s[i])]

\* the filter and the resource with the letters of the filter and of the name
\* all in lower case, or all in upper case
RecasedString(v, Case(_)) == IF v.t = "string" THEN Str(Case(v.s)) ELSE v

Recased(v, Case(_)) ==
  IF v.t = "object" THEN Obj(v.id, RecasedString(v.name, Case))
  ELSE RecasedString(v, Case)


-----------------------------------------------------------------------------
(* C1: compare returns true whenever the filter is absent (undefined) or the
   empty string, for every resource: absent, null, or an object with any
   combination of id and name. *)
C1_NoFilterMatches ==
  done /\ (filter = Undefined \/ filter = Str(<<>>)) => result = Bool(TRUE)

C1_Witness ==
  done /\ filter = Undefined /\ value = Undefined /\ result = Bool(TRUE)

(* C2: for the single-clause filter `none`, in any letter case and with any
   surrounding white space, compare returns true exactly when the resource is
   absent; for `!none` it returns true exactly when the resource is present,
   and the empty object counts as present. *)
C2_NoneKeyword ==
  done /\ HasFilter =>
    /\ Padded(filter.s, NoneWord) => result = Bool(Absent(value))
    /\ Padded(filter.s, NotNoneWord) => result = Bool(~Absent(value))

C2_Witness ==
  /\ done
  /\ filter = Str(<<" ", "!", "N", "o", "n", "e">>)
  /\ value = Obj(Undefined, Undefined)
  /\ result = Bool(TRUE)

(* C3, as claimed: for any name n and any string s that is a substring of
   lower-cased n, compare(s, {name: n}) is true, also when s is `none`,
   begins with `!` or contains `|`. *)
C3_AnySubstringMatches ==
  done /\ HasFilter /\ value.t = "object" /\ value.name.t = "string"
       /\ includes(toLowerCase(value.name.s), filter.s)
    => result = Bool(TRUE)

(* C3, amended: for any name n and any substring s of lower-cased n,
   compare(s, {name: n}) is true provided some `|`-separated clause of s,
   once trimmed, is neither the keyword `none` nor begins with `!`. *)
C3_SubstringMatches ==
  done /\ HasFilter /\ value.t = "object" /\ value.name.t = "string"
       /\ includes(toLowerCase(value.name.s), filter.s)
       /\ (\E c \in Clauses(filter.s) :
             trim(c) # none /\ ~startsWith(trim(c), "!"))
    => result = Bool(TRUE)

C3_Witness ==
  /\ done
  /\ filter = Str(<<" ", "a">>)
  /\ value = Obj(Undefined, Str(<<"1", " ", "a">>))
  /\ result = Bool(TRUE)

(* C4: for a resource {id: i} without a name and a decimal numeral s,
   compare(s, {id: i}) is true when parseInt(s) = i and false otherwise: the
   identifier is compared for equality, never as a run of digits inside it. *)
C4_NumericExactness ==
  done /\ HasFilter /\ AllDigits(filter.s)
       /\ value.t = "object" /\ value.id.t = "number" /\ value.name = Undefined
    => result = Bool(parseInt(filter.s) = value.id)

C4_Witness ==
  /\ done
  /\ filter = Str(<<"2">>)
  /\ value = Obj(Num(12), Undefined)
  /\ result = Bool(FALSE)

(* C5, as claimed: for every resource r and every non-empty term t without
   `|`, compare("!" + t, r) is the negation of compare(t, r), also when t
   begins with `!` or with white space. *)
C5_NegationInvertsAnyTerm ==
  done /\ HasFilter /\ Len(filter.s) >= 2 /\ Head(filter.s) = "!"
       /\ (\A i \in 1..Len(filter.s) : filter.s[i] # "|")
    => result = not(compare(Str(Tail(filter.s)), value))

(* C5, amended: for every resource r and every non-empty term t without `|`
   that begins neither with `!` nor with white space, compare("!" + t, r) is
   the negation of compare(t, r). *)
C5_NegationInverts ==
  done /\ HasFilter /\ Len(filter.s) >= 2 /\ Head(filter.s) = "!"
       /\ (\A i \in 1..Len(filter.s) : filter.s[i] # "|")
       /\ filter.s[2] \notin WhiteSpace \cup {"!"}
    => result = not(compare(Str(Tail(filter.s)), value))

C5_Witness ==
  /\ done
  /\ filter = Str(<<"!", "1", "2">>)
  /\ value = Obj(Num(12), Str(<<"a">>))
  /\ result = Bool(FALSE)

(* C6: for all filter strings a and b, empty ones included, and every
   resource r, present or absent, compare(a + "|" + b, r) equals
   compare(a, r) OR compare(b, r). *)
C6_OrComposition ==
  done /\ HasFilter =>
    \A i \in 1..Len(filter.s) :
      filter.s[i] = "|" =>
        result = Or(compare(Str(SubSeq(filter.s, 1, i - 1)), value),
                    compare(Str(SubSeq(filter.s, i + 1, Len(filter.s))), value))

C6_Witness ==
  /\ done
  /\ filter = Str(<<"a", "|", "1">>)
  /\ value = Obj(Num(1), Undefined)
  /\ result = Bool(TRUE)

(* C7, as claimed: compare returns a boolean and never raises; when the
   resource is absent, the predicate of every term other than `none` is
   false; a term that is not a number fails the identifier check. *)
C7_NeverRaisesAbsentIsFalse ==
  done =>
    /\ result.t = "boolean"
    /\ HasFilter /\ filter.s # <<>> =>
         \A i \in 1..Len(expressions(filter.s)) :
           LET e == Term(expressions(filter.s)[i])
           IN /\ Absent(value) /\ e # none => predicate(e, value) = Bool(FALSE)
              /\ (\E k \in 1..Len(e) : ~IsDigit(e[k]) /\ e[k] \notin WhiteSpace)
                   => idEquals(e, value) = Bool(FALSE)

(* C7, amended: compare returns a boolean and never raises; when the
   resource is absent, the predicate of every term other than `none` and the
   empty term is false, and the predicate of the empty term is true; a term
   that is not a number fails the identifier check. *)
C7_NeverRaises ==
  done =>
    /\ result.t = "boolean"
    /\ HasFilter /\ filter.s # <<>> =>
         \A i \in 1..Len(expressions(filter.s)) :
           LET e == Term(expressions(filter.s)[i])
           IN /\ Absent(value) /\ e # none => predicate(e, value) = Bool(e = <<>>)
              /\ (\E k \in 1..Len(e) : ~IsDigit(e[k]) /\ e[k] \notin WhiteSpace)
                   => idEquals(e, value) = Bool(FALSE)

C7_Witness ==
  /\ done
  /\ filter = Str(<<"a", "|", "1">>)
  /\ value = Undefined
  /\ result = Bool(FALSE)

(* C8, as claimed: for an absent resource and a non-empty filter f,
   compare(f, absent) is true exactly when every clause of f is the unnegated
   term `none`. *)
C8_AbsentIffEveryClauseNone ==
  done /\ HasFilter /\ filter.s # <<>> /\ Absent(value) =>
    result = Bool(\A c \in Clauses(filter.s) : Padded(c, NoneWord))

(* C8, amended: for an absent resource and a non-empty filter f,
   compare(f, absent) is true exactly when some clause of f, trimmed and in
   lower case, is `none`, is empty, or is `!` followed by a term that is
   neither `none` nor empty. *)
C8_AbsentIffSomeClause ==
  done /\ HasFilter /\ filter.s # <<>> /\ Absent(value) =>
    result = Bool(\E c \in Clauses(filter.s) :
                    LET e == toLowerCase(trim(c))
                    IN \/ e = none
                       \/ e = <<>>
                       \/ startsWith(e, "!") /\ Tail(e) \notin {none, <<>>})

C8_Witness ==
  /\ done
  /\ filter = Str(<<"n", "o", "n", "e", "|", "a">>)
  /\ value = Null
  /\ result = Bool(TRUE)

(* C9: a filter that is only white space, or only `|` separators with
   optional white space, matches every resource, present or absent, as an
   absent filter does. *)
C9_BlankFilterMatches ==
  done /\ HasFilter /\ filter.s # <<>>
       /\ (\A i \in 1..Len(filter.s) : filter.s[i] \in WhiteSpace \cup {"|"})
    => result = Bool(TRUE)

C9_Witness ==
  /\ done
  /\ filter = Str(<<" ", "|", " ">>)
  /\ value = Undefined
  /\ result = Bool(TRUE)

(* C10: the outcome of compare does not change when the letters of the
   filter, or of the resource's name, change case; the keyword `none` is
   recognised in any case. *)
C10_CaseInsensitive ==
  done =>
    \A f \in {filter, Recased(filter, toLowerCase), Recased(filter, toUpperCase)} :
      \A v \in {value, Recased(value, toLowerCase), Recased(value, toUpperCase)} :
        result = compare(f, v)

C10_Witness ==
  /\ done
  /\ filter = Str(<<"N", "o", "n", "e", "|", "A">>)
  /\ value = Obj(Undefined, Str(<<"!", "a">>))
  /\ result = Bool(TRUE)

\* the pieces joined again with `|` between them
RECURSIVE Join(_)
Join(parts) ==
  IF Len(parts) = 1 THEN parts[1]
  ELSE parts[1] \o <<"|">> \o Join(Tail(parts))

\* the orders in which n clauses can be written
Orders(n) ==
  {p \in [1..n -> 1..n] : \A i, j \in 1..n : p[i] = p[j] => i = j}

(* C11: for every filter with two or more `|`-separated clauses and every
   resource, present or absent, compare gives the same outcome for the
   filter and for every filter made by writing its clauses in another
   order. *)
C11_ClauseOrderIrrelevant ==
  done /\ HasFilter /\ Len(split(filter.s, "|")) >= 2 =>
    LET parts == split(filter.s, "|")
    IN \A p \in Orders(Len(parts)) :
         result = compare(Str(Join([i \in 1..Len(parts) |-> parts[p[i]]])), value)

C11_Witness ==
  /\ done
  /\ filter = Str(<<"2", "|", "a">>)
  /\ value = Obj(Num(1), Str(<<"A">>))
  /\ result = Bool(TRUE)

\* the offsets of the requests issued so far
Offsets == [i \in 1..Len(requests) |-> requests[i].offset]

\* what holds of fetchAll at every moment: the requests are at 0, 100, 200, ...
\* in that order, none follows a response that was the last page, and the
\* returned items are the server's, each once and in its order
C12_Safe ==
  /\ \A i \in 1..Len(requests) : Offsets[i] = (i - 1) * 100
  /\ \A i \in 1..(Len(requests) - 1) : total > Offsets[i] + 100
  /\ fpc = "done" =>
       /\ Len(requests) >= 1
       /\ total <= Offsets[Len(requests)] + 100
       /\ items = ServerIssues(total)

(* C12: against a server that reports a constant total_count N >= 0 and
   returns at each offset the page of at most 100 items that starts there,
   fetchAll terminates; its requests are at offsets 0, 100, 200, ... in that
   order; it stops after the first response with total_count <= offset + 100,
   having made at least one request; and it returns every item exactly once
   in server order. *)
C12_Pagination == []C12_Safe /\ <>(fpc = "done")

C12_Witness ==
  /\ fpc = "done"
  /\ total = 201
  /\ Offsets = <<0, 100, 200>>
  /\ items = ServerIssues(201)

====
